---------------------------- MODULE Spec2Model ----------------------------
(***************************************************************************)
(* Model of the keyword matching engine (src/keyword_processor.py,         *)
(* class WebKeywordMatcher).                                               *)
(*                                                                         *)
(* A Python str is a sequence of Unicode code points (naturals); a list is *)
(* a sequence; a dict is a function; positions are 0-based as in the       *)
(* source.                                                                 *)
(***************************************************************************)
EXTENDS Integers, Sequences, FiniteSets, TLC

(***************************************************************************)
(* Code points the source names in string literals.                        *)
(***************************************************************************)
SPACE == 32
COMMA == 44

(***************************************************************************)
(* Bounds of the model.                                                    *)
(***************************************************************************)
MaxLen == 4
MaxTokens == 3
MaxRefRows == 2
MaxRows == 3
MaxRequests == 2

(***************************************************************************)
(* Library semantics (Python str / re), restricted to the code points the  *)
(* model's alphabets can produce.                                          *)
(***************************************************************************)

\* str.isspace(): the characters str.split(), str.strip() and regex \s treat
\* as whitespace.
IsSpace(c) == c \in {9, 10, 11, 12, 13, 28, 29, 30, 31, 32, 133, 160, 12288}

\* regex \w on a str pattern: alphanumeric or underscore.  U+0307 (combining
\* dot above, category Mn) is not a word character.
IsWordChar(c) ==
    \/ c \in 48..57
    \/ c \in 65..90
    \/ c \in 97..122
    \/ c = 95
    \/ c = 304
    \/ c \in 19968..40959
    \/ c \in 65296..65305
    \/ c \in 65313..65338
    \/ c \in 65345..65370

\* str.lower() of one character; U+0130 lowers to the two code points
\* U+0069 U+0307 (the only length-changing lower-casing in Unicode).
LowerChar(c) ==
    IF c \in 65..90 THEN <<c + 32>>
    ELSE IF c \in 65313..65338 THEN <<c + 32>>
    ELSE IF c = 304 THEN <<105, 775>>
    ELSE <<c>>

RECURSIVE Lower(_)
Lower(s) == IF s = <<>> THEN <<>> ELSE LowerChar(Head(s)) \o Lower(Tail(s))

RECURSIVE LStrip(_)
LStrip(s) == IF s # <<>> /\ IsSpace(Head(s)) THEN LStrip(Tail(s)) ELSE s

RECURSIVE RStrip(_)
RStrip(s) ==
    IF s # <<>> /\ IsSpace(s[Len(s)]) THEN RStrip(SubSeq(s, 1, Len(s) - 1)) ELSE s

\* str.strip()
Strip(s) == RStrip(LStrip(s))

\* str.split() with no argument: the maximal runs of non-whitespace.
RECURSIVE SplitFrom(_, _, _)
SplitFrom(s, cur, acc) ==
    IF s = <<>> THEN (IF cur = <<>> THEN acc ELSE Append(acc, cur))
    ELSE IF IsSpace(Head(s))
         THEN SplitFrom(Tail(s), <<>>, IF cur = <<>> THEN acc ELSE Append(acc, cur))
         ELSE SplitFrom(Tail(s), Append(cur, Head(s)), acc)

Split(s) == SplitFrom(s, <<>>, <<>>)

\* str.split(sep): every piece between separators, empty pieces included.
RECURSIVE SplitOnFrom(_, _, _, _)
SplitOnFrom(s, sep, cur, acc) ==
    IF s = <<>> THEN Append(acc, cur)
    ELSE IF Head(s) = sep
         THEN SplitOnFrom(Tail(s), sep, <<>>, Append(acc, cur))
         ELSE SplitOnFrom(Tail(s), sep, Append(cur, Head(s)), acc)

SplitOn(s, sep) == SplitOnFrom(s, sep, <<>>, <<>>)

\* sep.join(list)
RECURSIVE Join(_, _)
Join(sep, ws) ==
    IF ws = <<>> THEN <<>>
    ELSE IF Len(ws) = 1 THEN ws[1]
    ELSE ws[1] \o sep \o Join(sep, Tail(ws))

Range(f) == {f[x] : x \in DOMAIN f}

\* All sequences over S of length at most n.
SeqsUpTo(S, n) == UNION {[1..k -> S] : k \in 0..n}

(***************************************************************************)
(* strQ2B: full-width to half-width folding.                               *)
(***************************************************************************)
\* Mutant of Q2BChar: the folded range stops one code point early.
Q2BCharShortRange(inside_code) ==
    IF inside_code = 12288 THEN 32
    ELSE IF 65281 <= inside_code /\ inside_code < 65374 THEN inside_code - 65248
    ELSE inside_code

Q2BChar(inside_code) ==
    IF inside_code = 12288 THEN 32
    ELSE IF 65281 <= inside_code /\ inside_code <= 65374 THEN inside_code - 65248
    ELSE inside_code

strQ2B(ustring) == [k \in 1..Len(ustring) |-> Q2BChar(ustring[k])]

(***************************************************************************)
(* Stop words.  DEFAULT_STOPWORDS holds the entries of the source's set    *)
(* that can be spelled with the letters a, i, n of the model's alphabet.   *)
(***************************************************************************)
\* 'a', 'an', 'i', 'in'
DEFAULT_STOPWORDS == { <<97>>, <<97, 110>>, <<105>>, <<105, 110>> }

\* Mutant of _get_stopwords: the custom words are stripped but not lower-cased.
_get_stopwordsNoLower(custom_stopwords) ==
    IF custom_stopwords = <<>> THEN DEFAULT_STOPWORDS
    ELSE LET pieces == SplitOn(custom_stopwords, COMMA)
         IN  DEFAULT_STOPWORDS \cup
             { Strip(pieces[k]) :
                 k \in {j \in 1..Len(pieces) : Strip(pieces[j]) # <<>>} }

\* _get_stopwords: the default set plus the comma-separated custom words,
\* each stripped and lower-cased, empty pieces dropped.
_get_stopwords(custom_stopwords) ==
    IF custom_stopwords = <<>> THEN DEFAULT_STOPWORDS
    ELSE LET pieces == SplitOn(custom_stopwords, COMMA)
         IN  DEFAULT_STOPWORDS \cup
             { Lower(Strip(pieces[k])) :
                 k \in {j \in 1..Len(pieces) : Strip(pieces[j]) # <<>>} }

(***************************************************************************)
(* clean_phrase                                                            *)
(***************************************************************************)

\* re.sub(r'[^\w\s\u4e00-\u9fff]', ' ', phrase)
SubNonWord(phrase) ==
    [k \in 1..Len(phrase) |->
        IF IsWordChar(phrase[k]) \/ IsSpace(phrase[k]) \/ phrase[k] \in 19968..40959
        THEN phrase[k] ELSE SPACE]

\* Mutant of FilterWords: stop words are kept, only short tokens are dropped.
RECURSIVE FilterWordsKeepStop(_, _)
FilterWordsKeepStop(stop, ws) ==
    IF ws = <<>> THEN <<>>
    ELSE IF Len(Head(ws)) > 1
         THEN <<Head(ws)>> \o FilterWordsKeepStop(stop, Tail(ws))
         ELSE FilterWordsKeepStop(stop, Tail(ws))

RECURSIVE FilterWords(_, _)
FilterWords(stop, ws) ==
    IF ws = <<>> THEN <<>>
    ELSE IF Head(ws) \notin stop /\ Len(Head(ws)) > 1
         THEN <<Head(ws)>> \o FilterWords(stop, Tail(ws))
         ELSE FilterWords(stop, Tail(ws))

clean_phrase(stop, phrase) ==
    IF phrase = <<>> THEN <<>>
    ELSE LET folded   == strQ2B(phrase)
             replaced == SubNonWord(folded)
             ws       == Split(Lower(replaced))
         IN  Join(<<SPACE>>, FilterWords(stop, ws))

(***************************************************************************)
(* _parse_rank_limit: str.isdigit() and int() on the option string         *)
(* (None is modelled as -1).                                               *)
(***************************************************************************)
IsDigitStr(s) == s # <<>> /\ \A k \in 1..Len(s) : s[k] \in 48..57

RECURSIVE IntOf(_)
IntOf(s) == IF s = <<>> THEN 0 ELSE 10 * IntOf(SubSeq(s, 1, Len(s) - 1)) + (s[Len(s)] - 48)

None == -1

_parse_rank_limit(rank_limit_str) ==
    IF rank_limit_str # <<>> /\ IsDigitStr(rank_limit_str) THEN IntOf(rank_limit_str)
    ELSE None

(***************************************************************************)
(* _build_index                                                            *)
(***************************************************************************)

\* The (w, i) pairs appended by the first loop, in row order; i is 0-based.
RECURSIVE IndexEntries(_, _)
IndexEntries(word_list, n) ==
    IF n = 0 THEN <<>>
    ELSE LET w == strQ2B(Lower(Strip(word_list[n])))
         IN  IF w = <<>> THEN IndexEntries(word_list, n - 1)
             ELSE Append(IndexEntries(word_list, n - 1), <<w, n - 1>>)

\* first = w.split()[0] if w.split() else w
FirstOf(w) == IF Split(w) # <<>> THEN Split(w)[1] ELSE w

\* key=lambda x: (len(x[0].split()), len(x[0]))
SortKey(x) == <<Len(Split(x[1])), Len(x[1])>>

KeyLess(a, b) == a[1] < b[1] \/ (a[1] = b[1] /\ a[2] < b[2])

\* list.sort(key=..., reverse=True): descending by key, equal keys keep their
\* original relative order (the sort is stable also under reverse=True).
\* Mutant of InsertDesc: an entry is placed before the entries of equal key
\* (an unstable sort).
RECURSIVE InsertDescBeforeEqual(_, _)
InsertDescBeforeEqual(sorted, x) ==
    IF sorted = <<>> THEN <<x>>
    ELSE IF ~KeyLess(SortKey(x), SortKey(Head(sorted)))
         THEN <<x>> \o sorted
         ELSE <<Head(sorted)>> \o InsertDescBeforeEqual(Tail(sorted), x)

RECURSIVE InsertDesc(_, _)
InsertDesc(sorted, x) ==
    IF sorted = <<>> THEN <<x>>
    ELSE IF KeyLess(SortKey(Head(sorted)), SortKey(x))
         THEN <<x>> \o sorted
         ELSE <<Head(sorted)>> \o InsertDesc(Tail(sorted), x)

RECURSIVE SortBucketFrom(_, _)
SortBucketFrom(bucket, n) ==
    IF n = 0 THEN <<>> ELSE InsertDesc(SortBucketFrom(bucket, n - 1), bucket[n])

\* Mutant of SortBucket: the bucket is left in row order.
SortBucketUnsorted(bucket) == bucket

SortBucket(bucket) == SortBucketFrom(bucket, Len(bucket))

_build_index(word_list) ==
    LET entries == IndexEntries(word_list, Len(word_list))
        keys    == {FirstOf(entries[k][1]) : k \in 1..Len(entries)}
    IN  [first \in keys |->
            SortBucket(SelectSeq(entries, LAMBDA e : FirstOf(e[1]) = first))]

(***************************************************************************)
(* match_from_index                                                        *)
(***************************************************************************)

\* Mutant of CandidateMatches: a keyword of several tokens is accepted on its
\* first token alone, without comparing the rest of the phrase.
CandidateMatchesFirstToken(words, i, keyword) ==
    LET keyword_words == Split(keyword)
    IN  IF Len(keyword_words) = 1
        THEN words[i + 1] = keyword
        ELSE words[i + 1] = keyword_words[1]

\* The test the inner loop applies to one candidate keyword at position i.
CandidateMatches(words, i, keyword) ==
    LET keyword_words == Split(keyword)
    IN  IF Len(keyword_words) = 1
        THEN words[i + 1] = keyword
        ELSE /\ i + Len(keyword_words) <= Len(words)
             /\ Join(<<SPACE>>, SubSeq(words, i + 1, i + Len(keyword_words))) = keyword

\* Index into the bucket of the first candidate that matches (0: none); the
\* inner loop breaks there.
RECURSIVE FirstCandidate(_, _, _, _)
FirstCandidate(words, i, bucket, k) ==
    IF k > Len(bucket) THEN 0
    ELSE IF CandidateMatches(words, i, bucket[k][1]) THEN k
    ELSE FirstCandidate(words, i, bucket, k + 1)

\* The tuple appended to matches: (keyword, i, i) for a one-token keyword,
\* (keyword, i, i + len(keyword_words) - 1) otherwise.
MatchTuple(keyword, i) ==
    LET keyword_words == Split(keyword)
    IN  IF Len(keyword_words) = 1 THEN <<keyword, i, i>>
        ELSE <<keyword, i, i + Len(keyword_words) - 1>>

\* Mutant of ClaimedBy: only the start position is marked as used.
ClaimedByStartOnly(i, keyword) == {i}

\* The positions a match of keyword at i adds to used_positions.
ClaimedBy(i, keyword) ==
    LET keyword_words == Split(keyword)
    IN  IF Len(keyword_words) = 1 THEN {i} ELSE i..(i + Len(keyword_words) - 1)

RECURSIVE MatchLoop(_, _, _, _, _)
MatchLoop(words, index, i, matches, used_positions) ==
    IF i >= Len(words) THEN [matches |-> matches, used_positions |-> used_positions]
    ELSE IF i \in used_positions
         THEN MatchLoop(words, index, i + 1, matches, used_positions)
    ELSE IF words[i + 1] \notin DOMAIN index
         THEN MatchLoop(words, index, i + 1, matches, used_positions)
    ELSE LET bucket == index[words[i + 1]]
             k      == FirstCandidate(words, i, bucket, 1)
         IN  IF k = 0
             THEN MatchLoop(words, index, i + 1, matches, used_positions)
             ELSE LET keyword == bucket[k][1]
                      claimed == ClaimedBy(i, keyword)
                  IN  MatchLoop(words, index, i + 1,
                                Append(matches, MatchTuple(keyword, i)),
                                used_positions \cup claimed)

match_from_index(phrase, index, used_positions) ==
    MatchLoop(Split(phrase), index, 0, <<>>, used_positions)

(***************************************************************************)
(* extract_all                                                             *)
(***************************************************************************)
FieldOrder == <<"keyword", "brand", "type", "size", "age", "gender">>

Fields == Range(FieldOrder)

\* The six match_from_index calls, threaded through one used_positions set:
\* the match lists (keyword, start, end) per field and the final set.
RECURSIVE RunPasses(_, _, _, _, _)
RunPasses(cleaned_phrase, indexes, n, found, used_positions) ==
    IF n > Len(FieldOrder) THEN [matches |-> found, used_positions |-> used_positions]
    ELSE LET r == match_from_index(cleaned_phrase, indexes[FieldOrder[n]], used_positions)
         IN  RunPasses(cleaned_phrase, indexes, n + 1,
                       [found EXCEPT ![FieldOrder[n]] = r.matches], r.used_positions)

NoMatches == [f \in Fields |-> <<>>]

\* The local variables of extract_all when it returns.
ExtractLocals(stop, indexes, phrase) ==
    LET cleaned_phrase == clean_phrase(stop, phrase)
    IN  IF cleaned_phrase = <<>>
        THEN [words |-> <<>>, matches |-> NoMatches, used_positions |-> {},
              uncovered_words |-> <<>>]
        ELSE LET r     == RunPasses(cleaned_phrase, indexes, 1, NoMatches, {})
                 words == Split(cleaned_phrase)
                 keep  == {i \in 0..(Len(words) - 1) : i \notin r.used_positions}
             IN  [words |-> words, matches |-> r.matches,
                  used_positions |-> r.used_positions,
                  uncovered_words |-> [k \in 1..Cardinality(keep) |->
                      words[1 + CHOOSE i \in keep :
                                  Cardinality({j \in keep : j < i}) = k - 1]]]

\* [k[0] for k in matches]
Names(matches) == [k \in 1..Len(matches) |-> matches[k][1]]

\* The dict extract_all returns.
extract_all(stop, indexes, phrase) ==
    LET loc == ExtractLocals(stop, indexes, phrase)
    IN  [keywords |-> Names(loc.matches["keyword"]),
         brands   |-> Names(loc.matches["brand"]),
         types    |-> Names(loc.matches["type"]),
         sizes    |-> Names(loc.matches["size"]),
         ages     |-> Names(loc.matches["age"]),
         genders  |-> Names(loc.matches["gender"]),
         uncovered_words |-> loc.uncovered_words]

(***************************************************************************)
(* _load_keyword_database.  A reference table is a sequence of columns     *)
(* [hdr, cells]; hdr is the set of role substrings ('keyword', 'type',     *)
(* 'gender', 'size', 'age', 'brand', or their Chinese forms) the           *)
(* normalised header contains; a cell is a str or NaN (an empty cell).     *)
(***************************************************************************)
NaN == <<-1>>

\* The if/elif chain of the header loop: the role a header is mapped to.
HeaderRole(hdr) ==
    IF "keyword" \in hdr THEN "Keyword"
    ELSE IF "type" \in hdr THEN "Type"
    ELSE IF "gender" \in hdr THEN "Gender"
    ELSE IF "size" \in hdr THEN "Size"
    ELSE IF "age" \in hdr THEN "Special Age"
    ELSE IF "brand" \in hdr THEN "Brand"
    ELSE "none"

\* col_map after the loop over the first n columns: a later header of the
\* same role overwrites an earlier one.
RECURSIVE ColMap(_, _)
ColMap(columns, n) ==
    IF n = 0 THEN << >>
    ELSE LET prev == ColMap(columns, n - 1)
             role == HeaderRole(columns[n].hdr)
         IN  IF role = "none" THEN prev
             ELSE [r \in (DOMAIN prev) \cup {role} |-> IF r = role THEN n ELSE prev[r]]

\* Series.astype(str): NaN becomes the string 'nan' (so the fillna('') that
\* follows finds nothing to fill).
AsStr(cell) == IF cell = NaN THEN <<110, 97, 110>> ELSE cell

ColumnList(columns, c) ==
    [k \in 1..Len(columns[c].cells) |-> AsStr(columns[c].cells[k])]

\* self.keyword_list ... self.brand_list, keyed by field.
RoleOf(field) ==
    CASE field = "keyword" -> "Keyword"
      [] field = "brand"   -> "Brand"
      [] field = "type"    -> "Type"
      [] field = "size"    -> "Size"
      [] field = "age"     -> "Special Age"
      [] field = "gender"  -> "Gender"

\* Mutant of FieldLists: every unmapped role falls back to the first column.
FieldListsFallbackAll(columns) ==
    LET col_map == ColMap(columns, Len(columns))
    IN  [f \in Fields |->
            IF RoleOf(f) \in DOMAIN col_map THEN ColumnList(columns, col_map[RoleOf(f)])
            ELSE ColumnList(columns, 1)]

FieldLists(columns) ==
    LET col_map == ColMap(columns, Len(columns))
    IN  [f \in Fields |->
            IF RoleOf(f) \in DOMAIN col_map THEN ColumnList(columns, col_map[RoleOf(f)])
            ELSE IF f = "keyword" THEN ColumnList(columns, 1)
            ELSE <<>>]

FieldIndexes(lists) == [f \in Fields |-> _build_index(lists[f])]

(***************************************************************************)
(* State.                                                                  *)
(***************************************************************************)
VARIABLES
    keyword_df,         \* self.keyword_df: the reference table, by column
    stopwords,          \* self.stopwords
    rank_limit,         \* self.rank_limit (None: -1)
    word_lists,         \* self.keyword_list, ..., by field
    indexes,            \* self.keyword_index, ..., by field
    input_file,         \* the batch input: [kind, cells]
    progress_callback,  \* whether process_file was given a callback
    pc,                 \* where process_file / extract_all stands
    df,                 \* the phrase column of df, after the rank limit
    idx,                \* rows processed so far
    results,            \* the results list of process_file
    progress_calls,     \* the values the callback has been invoked with
    output,             \* what to_excel wrote (None: nothing written)
    ret,                \* the value process_file returned
    phrase,             \* the phrase of the last extract_all call
    locals,             \* the locals of the last extract_all call
    text,               \* clean_phrase / strQ2B: the input string
    cleaned,            \* clean_phrase: the outputs of successive applications
    rstring,            \* strQ2B: the outputs of successive applications
    processing_status,  \* app.py: the entry of processing_status for the task
    worker,             \* app.py: where the thread process_keywords_async stands
    request,            \* app.py: the request being handled, after its first read
    responses           \* app.py: what the request handlers have answered

vars == <<keyword_df, stopwords, rank_limit, word_lists, indexes, input_file,
          progress_callback, pc, df, idx, results, progress_calls, output, ret,
          phrase, locals, text, cleaned, rstring, processing_status, worker,
          request, responses>>

engine == <<keyword_df, stopwords, rank_limit, word_lists, indexes>>

\* The state of the web application (src/app.py).
web == <<processing_status, worker, request, responses>>

NoOutput == <<"None">>

NoLocals == [words |-> <<>>, matches |-> NoMatches, used_positions |-> {},
             uncovered_words |-> <<>>]

\* No task has been uploaded to the web application.
NoWeb ==
    /\ processing_status = <<>>
    /\ worker = "none"
    /\ request = [kind |-> "none", status |-> "none"]
    /\ responses = <<>>

\* __init__
Constructed(custom_stopwords, rank_limit_str, columns) ==
    /\ keyword_df = columns
    /\ stopwords = _get_stopwords(custom_stopwords)
    /\ rank_limit = _parse_rank_limit(rank_limit_str)
    /\ word_lists = FieldLists(columns)
    /\ indexes = FieldIndexes(word_lists)

(***************************************************************************)
(* Input alphabets.                                                        *)
(***************************************************************************)
aa == <<97, 97>>                        \* 'aa'
nn == <<110, 110>>                      \* 'nn'
an == <<97, 110>>                       \* 'an', a default stop word
aa_nn == <<97, 97, 32, 110, 110>>       \* 'aa nn'

\* Reference cells and headers of the matching specification.
RefCells == {aa, nn, aa_nn}

RefHeaders == <<{"keyword"}, {"brand"}, {"type"}, {"size"}, {"age"}, {"gender"}>>

\* The header rows: one column, or two columns of different roles.
RefHeaderRows ==
    {<<RefHeaders[a]>> : a \in DOMAIN RefHeaders}
    \cup {<<RefHeaders[a], RefHeaders[b]>> :
            <<a, b>> \in {x \in (DOMAIN RefHeaders) \X (DOMAIN RefHeaders) : x[1] < x[2]}}

\* Reference tables: a header row and r <= MaxRefRows rows of cells.
TablesOf(h, r) ==
    { [c \in DOMAIN h |-> [hdr |-> h[c], cells |-> rows[c]]]
      : rows \in [DOMAIN h -> [1..r -> RefCells]] }

RefTables == UNION { TablesOf(x[1], x[2]) : x \in RefHeaderRows \X (0..MaxRefRows) }

\* Phrases of the matching specification: up to MaxTokens words.
PhraseWords == {aa, nn}

Phrases == {Join(<<SPACE>>, ws) : ws \in SeqsUpTo(PhraseWords, MaxTokens)}

\* Inputs of the batch specification.
BatchTables ==
    { << [hdr |-> {"keyword"}, cells |-> <<nn>>],
         [hdr |-> {"brand"}, cells |-> <<aa_nn>>] >>,
      << [hdr |-> {"brand"}, cells |-> <<aa, aa_nn>>] >> }

\* an absent cell, 'an', 'a!' (a one-character token and punctuation), 'aa nn'
BatchCells == {NaN, an, <<97, 33>>, aa_nn}

RankLimitOptions == {<<>>, <<48>>, <<49>>, <<50>>, <<45, 49>>}   \* '', '0', '1', '2', '-1'

StopwordOptions == {<<>>, <<32, 78, 78, 44>>}                    \* '', ' NN,'

InputFiles ==
    {[kind |-> "txt", cells |-> <<>>], [kind |-> "corrupt", cells |-> <<>>]}
    \cup [kind : {"xlsx", "csv"}, cells : SeqsUpTo(BatchCells, MaxRows)]

(***************************************************************************)
(* process_file                                                            *)
(***************************************************************************)
Failure(msg) == [success |-> FALSE, error |-> msg]

Success(n) == [success |-> TRUE, total_processed |-> n]

NoReturn == [success |-> FALSE, error |-> "not returned"]

\* Mutant of ApplyRankLimit: the tail of the table is kept instead of the head.
ApplyRankLimitTail(limit, cells) ==
    IF limit # None /\ limit # 0 /\ limit > 0
    THEN SubSeq(cells, (IF limit < Len(cells) THEN Len(cells) - limit ELSE 0) + 1, Len(cells))
    ELSE cells

\* df.head(self.rank_limit) when the limit is set and positive.
ApplyRankLimit(limit, cells) ==
    IF limit # None /\ limit # 0 /\ limit > 0
    THEN SubSeq(cells, 1, IF limit < Len(cells) THEN limit ELSE Len(cells))
    ELSE cells

\* phrase = str(row[phrase_col]) if pd.notna(row[phrase_col]) else ""
PhraseOf(cell) == IF cell = NaN THEN <<>> ELSE cell

\* Mutant of Progress: the row index is used without the + 1.
ProgressOffByOne(i, total_rows) == (i * 100) \div total_rows

\* int((idx + 1) / total_rows * 100).  The source divides in double
\* precision; for total_rows < 50 the result equals the exact quotient
\* (at total_rows = 50, idx + 1 = 29 the double product is 57.99.. and the
\* source yields 57).
Progress(i, total_rows) == ((i + 1) * 100) \div total_rows

\* The result row built for one phrase (the copied '原_' columns are left out).
ResultRow(p, extracted) == [phrase |-> p, extracted |-> extracted]

\* Mutant of ReadInput: no format check, any other name is read as CSV.
ReadInputAnyFormat ==
    /\ pc = "call"
    /\ IF input_file.kind = "corrupt"
       THEN /\ ret' = Failure("read error")
            /\ pc' = "returned"
            /\ UNCHANGED <<df, idx, results>>
       ELSE /\ df' = ApplyRankLimit(rank_limit, input_file.cells)
            /\ results' = <<>>
            /\ idx' = 0
            /\ pc' = "loop"
            /\ UNCHANGED ret
    /\ UNCHANGED <<engine, rstring, web, input_file, progress_callback, progress_calls, output,
                   phrase, locals, text, cleaned>>

\* Lines 198-219: read the input, pick the phrase column, apply the limit.
ReadInput ==
    /\ pc = "call"
    /\ IF input_file.kind = "txt"
       THEN /\ ret' = Failure("unsupported format")
            /\ pc' = "returned"
            /\ UNCHANGED <<df, idx, results>>
       ELSE IF input_file.kind = "corrupt"
       THEN /\ ret' = Failure("read error")
            /\ pc' = "returned"
            /\ UNCHANGED <<df, idx, results>>
       ELSE /\ df' = ApplyRankLimit(rank_limit, input_file.cells)
            /\ results' = <<>>
            /\ idx' = 0
            /\ pc' = "loop"
            /\ UNCHANGED ret
    /\ UNCHANGED <<engine, rstring, web, input_file, progress_callback, progress_calls, output,
                   phrase, locals, text, cleaned>>

\* The callback is given and returns.
CallbackReturns ==
    /\ progress_callback
    /\ progress_calls' = Append(progress_calls, Progress(idx, Len(df)))
    /\ idx' = idx + 1
    /\ UNCHANGED <<pc, ret>>

\* The callback is given and raises: the exception reaches the except clause
\* of process_file.
CallbackRaises ==
    /\ progress_callback
    /\ pc' = "returned"
    /\ ret' = Failure("callback error")
    /\ UNCHANGED <<progress_calls, idx>>

NoCallback ==
    /\ ~progress_callback
    /\ idx' = idx + 1
    /\ UNCHANGED <<progress_calls, pc, ret>>

\* Mutant of ProcessRow: the used-position set of the previous phrase is
\* carried into the six passes of the next one.
ProcessRowCarry ==
    /\ pc = "loop"
    /\ idx < Len(df)
    /\ phrase' = PhraseOf(df[idx + 1])
    /\ LET cleaned_phrase == clean_phrase(stopwords, phrase')
           r     == RunPasses(cleaned_phrase, indexes, 1, NoMatches, locals.used_positions)
           words == Split(cleaned_phrase)
           keep  == {i \in 0..(Len(words) - 1) : i \notin r.used_positions}
           left  == [k \in 1..Cardinality(keep) |->
                        words[1 + CHOOSE i \in keep :
                                    Cardinality({j \in keep : j < i}) = k - 1]]
       IN  /\ locals' = [words |-> words, matches |-> r.matches,
                         used_positions |-> r.used_positions, uncovered_words |-> left]
           /\ results' = Append(results, ResultRow(phrase',
                  [keywords |-> Names(r.matches["keyword"]),
                   brands   |-> Names(r.matches["brand"]),
                   types    |-> Names(r.matches["type"]),
                   sizes    |-> Names(r.matches["size"]),
                   ages     |-> Names(r.matches["age"]),
                   genders  |-> Names(r.matches["gender"]),
                   uncovered_words |-> left]))
    /\ \/ CallbackReturns
       \/ CallbackRaises
       \/ NoCallback
    /\ UNCHANGED <<engine, rstring, web, input_file, progress_callback, df, output, text, cleaned>>

\* One iteration of the row loop (lines 225-253).
ProcessRow ==
    /\ pc = "loop"
    /\ idx < Len(df)
    /\ phrase' = PhraseOf(df[idx + 1])
    /\ locals' = ExtractLocals(stopwords, indexes, phrase')
    /\ results' = Append(results, ResultRow(phrase', extract_all(stopwords, indexes, phrase')))
    /\ \/ CallbackReturns
       \/ CallbackRaises
       \/ NoCallback
    /\ UNCHANGED <<engine, rstring, web, input_file, progress_callback, df, output, text, cleaned>>

\* Lines 255-267: to_excel writes the result rows and the success dict is
\* returned.
SaveResults ==
    /\ pc = "loop"
    /\ idx = Len(df)
    /\ output' = results
    /\ ret' = Success(Len(df))
    /\ pc' = "returned"
    /\ UNCHANGED <<engine, rstring, web, input_file, progress_callback, df, idx, results,
                   progress_calls, phrase, locals, text, cleaned>>

\* to_excel raises (the path cannot be written): lines 269-273.
SaveFails ==
    /\ pc = "loop"
    /\ idx = Len(df)
    /\ ret' = Failure("write error")
    /\ pc' = "returned"
    /\ UNCHANGED <<engine, rstring, web, input_file, progress_callback, df, idx, results,
                   progress_calls, output, phrase, locals, text, cleaned>>

Init ==
    /\ \E cs \in StopwordOptions, rl \in RankLimitOptions, t \in BatchTables :
          Constructed(cs, rl, t)
    /\ input_file \in InputFiles
    /\ progress_callback \in BOOLEAN
    /\ pc = "call"
    /\ df = <<>>
    /\ idx = 0
    /\ results = <<>>
    /\ progress_calls = <<>>
    /\ output = NoOutput
    /\ ret = NoReturn
    /\ phrase = <<>>
    /\ locals = NoLocals
    /\ text = <<>>
    /\ cleaned = <<>>
    /\ rstring = <<>>
    /\ NoWeb

Next == ReadInput \/ ProcessRow \/ SaveResults \/ SaveFails

Spec == Init /\ [][Next]_vars

(***************************************************************************)
(* extract_all on one phrase, over the richer reference tables.            *)
(***************************************************************************)
ExtractCall ==
    /\ pc = "extract"
    /\ locals' = ExtractLocals(stopwords, indexes, phrase)
    /\ pc' = "extracted"
    /\ UNCHANGED <<engine, rstring, web, input_file, progress_callback, df, idx, results,
                   progress_calls, output, ret, phrase, text, cleaned>>

InitMatch ==
    /\ \E t \in RefTables : Constructed(<<>>, <<>>, t)
    /\ phrase \in Phrases
    /\ pc = "extract"
    /\ input_file = [kind |-> "xlsx", cells |-> <<>>]
    /\ progress_callback = FALSE
    /\ df = <<>>
    /\ idx = 0
    /\ results = <<>>
    /\ progress_calls = <<>>
    /\ output = NoOutput
    /\ ret = NoReturn
    /\ locals = NoLocals
    /\ text = <<>>
    /\ cleaned = <<>>
    /\ rstring = <<>>
    /\ NoWeb

NextMatch == ExtractCall

SpecMatch == InitMatch /\ [][NextMatch]_vars

(***************************************************************************)
(* clean_phrase applied to a string and then to its own output.            *)
(***************************************************************************)
\* 'a', 'n', 'A', ' ', '!', U+0130, U+3000, U+FF21
CleanAlphabet == {97, 110, 65, 32, 33, 304, 12288, 65313}

CleanCall ==
    /\ pc = "clean"
    /\ Len(cleaned) < 2
    /\ cleaned' = Append(cleaned,
                         clean_phrase(stopwords,
                                     IF cleaned = <<>> THEN text ELSE cleaned[Len(cleaned)]))
    /\ UNCHANGED <<engine, rstring, web, input_file, progress_callback, pc, df, idx, results,
                   progress_calls, output, ret, phrase, locals, text>>

InitClean ==
    /\ \E cs \in StopwordOptions :
          Constructed(cs, <<>>, << [hdr |-> {"keyword"}, cells |-> <<>>] >>)
    /\ text \in SeqsUpTo(CleanAlphabet, MaxLen)
    /\ cleaned = <<>>
    /\ pc = "clean"
    /\ input_file = [kind |-> "xlsx", cells |-> <<>>]
    /\ progress_callback = FALSE
    /\ df = <<>>
    /\ idx = 0
    /\ results = <<>>
    /\ progress_calls = <<>>
    /\ output = NoOutput
    /\ ret = NoReturn
    /\ phrase = <<>>
    /\ locals = NoLocals
    /\ rstring = <<>>
    /\ NoWeb

NextClean == CleanCall

SpecClean == InitClean /\ [][NextClean]_vars

(***************************************************************************)
(* strQ2B applied to a string and then to its own output.                  *)
(***************************************************************************)
\* 'a', ' ', U+3000, and the code points at and next to the two ends of the
\* folded range U+FF01..U+FF5E
FoldAlphabet == {97, 32, 12288, 65280, 65281, 65374, 65375}

FoldCall ==
    /\ pc = "fold"
    /\ Len(rstring) < 2
    /\ rstring' = Append(rstring,
                         strQ2B(IF rstring = <<>> THEN text ELSE rstring[Len(rstring)]))
    /\ UNCHANGED <<engine, web, input_file, progress_callback, pc, df, idx, results,
                   progress_calls, output, ret, phrase, locals, text, cleaned>>

InitFold ==
    /\ Constructed(<<>>, <<>>, << [hdr |-> {"keyword"}, cells |-> <<>>] >>)
    /\ text \in SeqsUpTo(FoldAlphabet, MaxLen)
    /\ rstring = <<>>
    /\ cleaned = <<>>
    /\ pc = "fold"
    /\ input_file = [kind |-> "xlsx", cells |-> <<>>]
    /\ progress_callback = FALSE
    /\ df = <<>>
    /\ idx = 0
    /\ results = <<>>
    /\ progress_calls = <<>>
    /\ output = NoOutput
    /\ ret = NoReturn
    /\ phrase = <<>>
    /\ locals = NoLocals
    /\ NoWeb

NextFold == FoldCall

SpecFold == InitFold /\ [][NextFold]_vars

(***************************************************************************)
(* The loader on tables with ambiguous headers and irregular cells,        *)
(* followed by extract_all on one phrase.                                  *)
(***************************************************************************)
nan == <<110, 97, 110>>                 \* 'nan'

\* A header is the set of role substrings it contains: an unrelated header,
\* 'keyword', 'brand', and a header holding both 'brand' and 'type'.
LoadHeaders == <<{}, {"keyword"}, {"brand"}, {"brand", "type"}>>

LoadHeaderRows ==
    {<<LoadHeaders[a]>> : a \in DOMAIN LoadHeaders}
    \cup {<<LoadHeaders[a], LoadHeaders[b]>> :
            <<a, b>> \in (DOMAIN LoadHeaders) \X (DOMAIN LoadHeaders)}

\* an absent cell, 'aa', 'aa nn', 'aa!' and a cell holding one space
LoadCells == {NaN, aa, aa_nn, <<97, 97, 33>>, <<SPACE>>}

\* The cells of the columns after the first.
LoadCellsRest == {NaN, aa}

LoadTablesOf(h, r) ==
    { [c \in DOMAIN h |-> [hdr |-> h[c], cells |-> rows[c]]]
      : rows \in { f \in [DOMAIN h -> [1..r -> LoadCells]] :
                     \A c \in DOMAIN h : c > 1 => Range(f[c]) \subseteq LoadCellsRest } }

LoadTables == UNION { LoadTablesOf(x[1], x[2]) : x \in LoadHeaderRows \X (0..MaxRefRows) }

\* 'aa', 'aa nn', 'nan', 'nan aa'
LoadPhrases == {aa, aa_nn, nan, nan \o <<SPACE>> \o aa}

InitLoad ==
    /\ \E t \in LoadTables : Constructed(<<>>, <<>>, t)
    /\ phrase \in LoadPhrases
    /\ pc = "extract"
    /\ input_file = [kind |-> "xlsx", cells |-> <<>>]
    /\ progress_callback = FALSE
    /\ df = <<>>
    /\ idx = 0
    /\ results = <<>>
    /\ progress_calls = <<>>
    /\ output = NoOutput
    /\ ret = NoReturn
    /\ locals = NoLocals
    /\ text = <<>>
    /\ cleaned = <<>>
    /\ rstring = <<>>
    /\ NoWeb

NextLoad == ExtractCall

SpecLoad == InitLoad /\ [][NextLoad]_vars

(***************************************************************************)
(* The web application (src/app.py): one uploaded task, its worker thread  *)
(* process_keywords_async, and the handlers of /progress, /result and      *)
(* /download.  The threads interleave between any two accesses to the      *)
(* task's entry of processing_status, so every assignment of the worker    *)
(* and every read of a handler that another thread's write can separate    *)
(* from the next is a step.  process_file is reduced to what the worker    *)
(* sees of it: the callback values and the returned dict.                  *)
(***************************************************************************)
\* Mutant of CallbackProgress: the row percentage is added unscaled.
CallbackProgressUnscaled(progress) == 30 + progress

\* 30 + int(progress * 0.6); for the integers 0..100 the double product
\* truncates to the exact quotient.
CallbackProgress(progress) == 30 + (progress * 6) \div 10

\* status[key] = value
SetItem(status, key, value) ==
    [k \in (DOMAIN status) \cup {key} |-> IF k = key THEN value ELSE status[k]]

Uploaded == "status" \in DOMAIN processing_status

\* upload_files, lines 137-152: the entry is created and the thread started.
Upload ==
    /\ worker = "none"
    /\ processing_status' = [status |-> "uploaded", progress |-> 0]
    /\ worker' = "l43"
    /\ UNCHANGED <<engine, rstring, request, responses, input_file, progress_callback,
                   pc, df, idx, results, progress_calls, output, ret, phrase, locals,
                   text, cleaned>>

\* One assignment of the worker to the entry.
WorkerSets(at, key, value, then) ==
    /\ worker = at
    /\ processing_status' = SetItem(processing_status, key, value)
    /\ worker' = then
    /\ UNCHANGED <<engine, rstring, request, responses, input_file, progress_callback,
                   pc, df, idx, results, progress_calls, output, ret, phrase, locals,
                   text, cleaned>>

\* A step of the worker that leaves the entry alone.
WorkerMoves(at, then) ==
    /\ worker = at
    /\ worker' = then
    /\ UNCHANGED <<engine, rstring, processing_status, request, responses, input_file,
                   progress_callback, pc, results, output, phrase, locals, text, cleaned>>

\* line 43
SetProcessing ==
    /\ worker = "l43"
    /\ WorkerSets("l43", "status", "processing", "l44")

\* line 44
SetProgress10 ==
    /\ worker = "l44"
    /\ WorkerSets("l44", "progress", 10, "l48")

\* lines 48-51: the matcher is constructed.
ConstructMatcher ==
    /\ worker = "l48"
    /\ WorkerMoves("l48", "l53")
    /\ UNCHANGED <<df, idx, progress_calls, ret>>

\* lines 48-51: the constructor raises (the reference file cannot be loaded)
\* and control passes to the except clause.
ConstructFails ==
    /\ worker = "l48"
    /\ WorkerMoves("l48", "l87")
    /\ UNCHANGED <<df, idx, progress_calls, ret>>

\* line 53
SetProgress30 ==
    /\ worker = "l53"
    /\ WorkerSets("l53", "progress", 30, "l67")

\* line 67 and process_file up to its row loop: the input has n rows, or
\* cannot be read and process_file returns the failure dict.
StartProcessFile ==
    /\ worker = "l67"
    /\ \/ /\ WorkerMoves("l67", "loop")
          /\ \E n \in 0..MaxRows : df' = [k \in 1..n |-> aa]
          /\ idx' = 0
          /\ UNCHANGED <<progress_calls, ret>>
       \/ /\ WorkerMoves("l67", "l73")
          /\ ret' = Failure("read error")
          /\ UNCHANGED <<df, idx, progress_calls>>

\* One row of process_file and its call of progress_callback (lines 61-64).
RowCallback ==
    /\ worker = "loop"
    /\ idx < Len(df)
    /\ progress_calls' = Append(progress_calls, Progress(idx, Len(df)))
    /\ processing_status' = SetItem(processing_status, "progress",
                                    CallbackProgress(Progress(idx, Len(df))))
    /\ idx' = idx + 1
    /\ UNCHANGED <<engine, rstring, worker, request, responses, input_file,
                   progress_callback, pc, df, results, output, ret, phrase, locals,
                   text, cleaned>>

\* process_file returns: the success dict after writing the result file, or
\* the failure dict when the file cannot be written.
ProcessFileReturns ==
    /\ worker = "loop"
    /\ idx = Len(df)
    /\ WorkerMoves("loop", "l73")
    /\ ret' \in {Success(Len(df)), Failure("write error")}
    /\ UNCHANGED <<df, idx, progress_calls>>

\* lines 73-74
SetCompleted ==
    /\ worker = "l73"
    /\ ret.success
    /\ WorkerSets("l73", "status", "completed", "l75")

\* line 75
SetProgress100 ==
    /\ worker = "l75"
    /\ WorkerSets("l75", "progress", 100, "l77")

\* line 77
SetOutputFile ==
    /\ worker = "l77"
    /\ WorkerSets("l77", "output_file", "output_path", "l78")

\* line 78
SetResultData ==
    /\ worker = "l78"
    /\ WorkerSets("l78", "result_data", "result", "done")

\* lines 80-81
SetError ==
    /\ worker = "l73"
    /\ ~ret.success
    /\ WorkerSets("l73", "status", "error", "done")

\* Mutant of ExceptSetError: the exception ends the thread without touching
\* the entry.
ExceptPasses ==
    /\ worker = "l87"
    /\ WorkerMoves("l87", "done")
    /\ UNCHANGED <<df, idx, progress_calls, ret>>

\* lines 85-87
ExceptSetError ==
    /\ worker = "l87"
    /\ WorkerSets("l87", "status", "error", "done")

\* A handler step that reads the entry and goes on to its next read.
HandlerReads(kind) ==
    /\ Uploaded
    /\ request.kind = "none"
    /\ Len(responses) < MaxRequests
    /\ request' = [kind |-> kind, status |-> processing_status.status]
    /\ UNCHANGED <<engine, rstring, processing_status, worker, responses, input_file,
                   progress_callback, pc, df, idx, results, progress_calls, output, ret,
                   phrase, locals, text, cleaned>>

\* A handler step that answers.
HandlerAnswers(kind, response) ==
    /\ request.kind = kind
    /\ request' = [kind |-> "none", status |-> "none"]
    /\ responses' = Append(responses, response)
    /\ UNCHANGED <<engine, rstring, processing_status, worker, input_file,
                   progress_callback, pc, df, idx, results, progress_calls, output, ret,
                   phrase, locals, text, cleaned>>

\* get_progress, line 172: status['status'] is read.
ProgressReadStatus ==
    /\ request.kind = "none"
    /\ HandlerReads("progress")

\* get_progress, lines 173-176: status['progress'] is read and the response
\* sent; 'task' is the task's status at that moment, 'status' the value read
\* at line 172.
ProgressReadProgress ==
    /\ request.kind = "progress"
    /\ HandlerAnswers("progress",
           [handler |-> "progress", code |-> 200, status |-> request.status,
            progress |-> processing_status.progress,
            task |-> processing_status.status])

\* get_result, line 186: the status is read.
ResultReadStatus ==
    /\ request.kind = "none"
    /\ HandlerReads("result")

\* get_result, lines 186-187: a task that is not completed is refused.
ResultRefuses ==
    /\ request.kind = "result"
    /\ request.status # "completed"
    /\ HandlerAnswers("result",
           [handler |-> "result", code |-> 400, status |-> request.status])

\* get_result, lines 189-209: result_data and output_file are read.  The
\* worker writes output_file before result_data and the handler reads them in
\* the opposite order, so the two reads yield no pair a single step does not.
ResultAnswers ==
    /\ request.kind = "result"
    /\ request.status = "completed"
    /\ HandlerAnswers("result",
           [handler |-> "result", code |-> 200, status |-> request.status,
            statistics |-> "result_data" \in DOMAIN processing_status,
            preview |-> "output_file" \in DOMAIN processing_status])

\* download_result, line 222: the status is read.
DownloadReadStatus ==
    /\ request.kind = "none"
    /\ HandlerReads("download")

\* download_result, lines 222-223
DownloadRefuses ==
    /\ request.kind = "download"
    /\ request.status # "completed"
    /\ HandlerAnswers("download",
           [handler |-> "download", code |-> 400, status |-> request.status])

\* download_result, lines 225-236: 404 '结果文件不存在' when the entry has no
\* output_file, the file otherwise.
DownloadAnswers ==
    /\ request.kind = "download"
    /\ request.status = "completed"
    /\ HandlerAnswers("download",
           [handler |-> "download",
            code |-> IF "output_file" \in DOMAIN processing_status THEN 200 ELSE 404,
            status |-> request.status])

InitApp ==
    /\ Constructed(<<>>, <<>>, << [hdr |-> {"keyword"}, cells |-> <<>>] >>)
    /\ NoWeb
    /\ pc = "app"
    /\ input_file = [kind |-> "xlsx", cells |-> <<>>]
    /\ progress_callback = TRUE
    /\ df = <<>>
    /\ idx = 0
    /\ results = <<>>
    /\ progress_calls = <<>>
    /\ output = NoOutput
    /\ ret = NoReturn
    /\ phrase = <<>>
    /\ locals = NoLocals
    /\ text = <<>>
    /\ cleaned = <<>>
    /\ rstring = <<>>

Worker ==
    \/ SetProcessing
    \/ SetProgress10
    \/ ConstructMatcher
    \/ ConstructFails
    \/ SetProgress30
    \/ StartProcessFile
    \/ RowCallback
    \/ ProcessFileReturns
    \/ SetCompleted
    \/ SetProgress100
    \/ SetOutputFile
    \/ SetResultData
    \/ SetError
    \/ ExceptSetError

Handlers ==
    \/ ProgressReadStatus
    \/ ProgressReadProgress
    \/ ResultReadStatus
    \/ ResultRefuses
    \/ ResultAnswers
    \/ DownloadReadStatus
    \/ DownloadRefuses
    \/ DownloadAnswers

NextApp == Upload \/ Worker \/ Handlers

SpecApp == InitApp /\ [][NextApp]_vars

\* The worker is a started thread (lines 150-152) of a running interpreter:
\* whenever it has a next step it eventually takes it.  No request is ever
\* bound to arrive, so the handlers carry no fairness.
SpecAppFair == SpecApp /\ WF_vars(Worker)

(***************************************************************************)
(* Properties.                                                             *)
(***************************************************************************)

\* The positions a recorded match (keyword, start, end) covers.
Span(m) == m[2]..m[3]

\* The recorded matches, as (position in FieldOrder, position in the list).
Recorded ==
    UNION { {<<n, k>> : k \in 1..Len(locals.matches[FieldOrder[n]])}
            : n \in 1..Len(FieldOrder) }

MatchAt(r) == locals.matches[FieldOrder[r[1]]][r[2]]

\* Position i lies in the span of a match recorded by the n-th field.
CoveredBy(n, i) == \E r \in Recorded : r[1] = n /\ i \in Span(MatchAt(r))

Positions == 0..(Len(locals.words) - 1)

\* C1: after the six passes of extract_all no token position lies inside the
\* spans of two recorded matches, of the same field or of different fields.
C1_NonOverlap ==
    pc = "extracted" =>
        \A r1 \in Recorded, r2 \in Recorded :
            r1 # r2 => Span(MatchAt(r1)) \cap Span(MatchAt(r2)) = {}

\* The single-token entries stored in an index.
SingleTokenEntries(index) ==
    UNION { {b[k][1] : k \in {j \in 1..Len(b) : Len(Split(b[j][1])) = 1}}
            : b \in Range(index) }

\* C2: when the same single-token entry is in the indexes of an earlier and a
\* later field, every occurrence of that token is claimed once the earlier
\* field's pass is over and is never inside a match recorded by the later
\* field.
C2_FieldPriority ==
    pc = "extracted" =>
        \A a \in 1..Len(FieldOrder), b \in 1..Len(FieldOrder) :
            a < b =>
                \A t \in SingleTokenEntries(indexes[FieldOrder[a]])
                         \cap SingleTokenEntries(indexes[FieldOrder[b]]) :
                    \A i \in Positions :
                        locals.words[i + 1] = t =>
                            /\ \E n \in 1..a : CoveredBy(n, i)
                            /\ ~CoveredBy(b, i)

\* Every entry stored in an index.
AllEntries(index) == UNION { {b[k][1] : k \in 1..Len(b)} : b \in Range(index) }

\* The entries of the n-th field's index that equal the phrase tokens
\* starting at position i.
Fitting(n, i) ==
    {e \in AllEntries(indexes[FieldOrder[n]]) :
        LET L == Len(Split(e))
        IN  /\ L >= 1
            /\ i + L <= Len(locals.words)
            /\ e = Join(<<SPACE>>, SubSeq(locals.words, i + 1, i + L))}

\* Position i was already claimed when the n-th pass reached it: by an
\* earlier field, or by a match of this field that starts before i.
ClaimedBefore(n, i) ==
    \/ \E m \in 1..(n - 1) : CoveredBy(m, i)
    \/ \E r \in Recorded : r[1] = n /\ MatchAt(r)[2] < i /\ i \in Span(MatchAt(r))

StartingAt(n, i) == {r \in Recorded : r[1] = n /\ MatchAt(r)[2] = i}

\* C3: in one field pass, at an unclaimed position where entries of the
\* field's index fit, exactly one match is recorded and it is a fitting entry
\* with the most tokens (and, among those, the most characters).
C3_LongestMatch ==
    pc = "extracted" =>
        \A n \in 1..Len(FieldOrder), i \in Positions :
            LET fit == Fitting(n, i)
            IN  (fit # {} /\ ~ClaimedBefore(n, i)) =>
                    /\ Cardinality(StartingAt(n, i)) = 1
                    /\ \A r \in StartingAt(n, i) :
                          /\ MatchAt(r)[1] \in fit
                          /\ \A e \in fit :
                                ~KeyLess(SortKey(MatchAt(r)), SortKey(<<e, 0>>))

\* C3 witness: a one-token and a two-token entry of the same field both fit
\* at an unclaimed position.
C3_Witness ==
    /\ pc = "extracted"
    /\ \E n \in 1..Len(FieldOrder), i \in Positions :
          /\ ~ClaimedBefore(n, i)
          /\ \E e1 \in Fitting(n, i), e2 \in Fitting(n, i) :
                Len(Split(e1)) < Len(Split(e2))

\* The tokens at the positions from i on that no recorded match covers.
RECURSIVE UncoveredFrom(_)
UncoveredFrom(i) ==
    IF i >= Len(locals.words) THEN <<>>
    ELSE IF \E n \in 1..Len(FieldOrder) : CoveredBy(n, i)
         THEN UncoveredFrom(i + 1)
         ELSE <<locals.words[i + 1]>> \o UncoveredFrom(i + 1)

\* C4: uncovered_words is the sequence of tokens at the positions outside
\* used_positions, left to right, and a position is in used_positions exactly
\* when a recorded match covers it.
C4_Uncovered ==
    pc = "extracted" =>
        /\ locals.used_positions =
              {i \in Positions : \E n \in 1..Len(FieldOrder) : CoveredBy(n, i)}
        /\ locals.uncovered_words = UncoveredFrom(0)

\* C4 witness: a phrase with a covered two-token span and an uncovered token.
C4_Witness ==
    /\ pc = "extracted"
    /\ locals.uncovered_words # <<>>
    /\ \E r \in Recorded : MatchAt(r)[3] > MatchAt(r)[2]

\* The rows of the input that process_file is to process.
Readable == input_file.kind \in {"xlsx", "csv"}

\* C5: a progress callback that raises does not abort the batch: for a
\* readable input whose result could be written, process_file returns success
\* with a result row for every phrase.
C5_CallbackFailureTolerated ==
    (pc = "returned" /\ Readable /\ (ret.success \/ ret.error # "write error")) =>
        /\ ret.success
        /\ Len(output) = Len(df)

NonDecreasing(s) == \A k \in 1..(Len(s) - 1) : s[k] <= s[k + 1]

Min(a, b) == IF a < b THEN a ELSE b

\* The number of rows the rank limit lets through.
Expected == IF rank_limit > 0 THEN Min(rank_limit, Len(input_file.cells))
            ELSE Len(input_file.cells)

\* C7: process_file processes the first min(n, m) phrases under a positive
\* rank limit n, all m phrases without one, and the result rows follow the
\* input order.
C7_RankLimit ==
    (pc \in {"loop", "returned"} /\ Readable) =>
        /\ Len(df) = Expected
        /\ Len(results) <= Expected
        /\ \A k \in 1..Len(results) :
              results[k].phrase = PhraseOf(input_file.cells[k])
        /\ (pc = "returned" /\ ret.success) =>
              /\ output = results
              /\ Len(results) = Expected
              /\ ret.total_processed = Expected

\* C7 witness: a rank limit below the number of input rows, batch returned.
C7_Witness ==
    /\ pc = "returned"
    /\ ret.success
    /\ rank_limit > 0
    /\ rank_limit < Len(input_file.cells)
    /\ Len(output) = rank_limit

\* C8: process_file returns either success after writing one result row per
\* processed phrase, or a failure with an error message and nothing written;
\* an unsupported input format fails before any row is processed and before
\* any callback.
C8_AllOrNothing ==
    /\ pc # "returned" => output = NoOutput
    /\ pc = "returned" =>
          \/ /\ ret.success
             /\ output = results
             /\ Len(output) = Len(df)
          \/ /\ ~ret.success
             /\ ret.error \in {"unsupported format", "read error", "callback error",
                               "write error"}
             /\ output = NoOutput
    /\ (pc = "returned" /\ input_file.kind = "txt") =>
          /\ ~ret.success
          /\ ret.error = "unsupported format"
          /\ results = <<>>
          /\ progress_calls = <<>>

\* C8 witness: a failure returned after rows were processed, nothing written.
C8_Witness ==
    /\ pc = "returned"
    /\ ~ret.success
    /\ Len(results) > 0
    /\ output = NoOutput

\* A phrase with nothing to extract: empty, or every token of its folded,
\* lower-cased, punctuation-free form is a stop word or a single character.
Degenerate(p) ==
    \A w \in Range(Split(Lower(SubNonWord(strQ2B(p))))) : w \in stopwords \/ Len(w) <= 1

EmptyExtraction ==
    [keywords |-> <<>>, brands |-> <<>>, types |-> <<>>, sizes |-> <<>>,
     ages |-> <<>>, genders |-> <<>>, uncovered_words |-> <<>>]

\* C9: a phrase whose cleaned form is empty gets six empty field lists and an
\* empty uncovered list, and the batch goes on with the next phrase.
C9_EmptyPhrase ==
    /\ \A k \in 1..Len(results) :
          Degenerate(results[k].phrase) => results[k].extracted = EmptyExtraction
    /\ (pc = "loop" /\ ~progress_callback) => Len(results) = idx
    /\ (pc = "returned" /\ ret.success) => Len(results) = Len(df)

\* C9 witness: an absent cell and a stop-word-only phrase were followed by a
\* phrase with matches, and the batch succeeded.
C9_Witness ==
    /\ pc = "returned"
    /\ ret.success
    /\ Len(results) = 3
    /\ results[1].phrase = <<>>
    /\ results[2].phrase = an
    /\ results[3].extracted # EmptyExtraction

\* C10: clean_phrase(clean_phrase(x)) = clean_phrase(x).
C10_Idempotent == Len(cleaned) = 2 => cleaned[2] = cleaned[1]

\* The tokens clean_phrase filters: the whitespace-separated pieces of the
\* folded, punctuation-free, lower-cased input.
InputTokens == Split(Lower(SubNonWord(strQ2B(text))))

\* The stop-word sets the custom options '' and ' NN,' stand for: the default
\* list, and the default list plus 'nn'.
ExpectedStopwords == {DEFAULT_STOPWORDS, DEFAULT_STOPWORDS \cup {nn}}

\* C11: the output of clean_phrase holds no stop word (default list plus the
\* trimmed, lower-cased custom words) and no token of length 1 or less; every
\* other lower-cased token of the input survives, in order, and the tokens
\* are joined by single spaces.
C11_StopwordFilter ==
    /\ stopwords \in ExpectedStopwords
    /\ Len(cleaned) >= 1 =>
          LET out  == Split(cleaned[1])
              Kept(w) == w \notin stopwords /\ Len(w) > 1
          IN  /\ \A k \in 1..Len(out) : out[k] \notin stopwords /\ Len(out[k]) > 1
              /\ out = SelectSeq(InputTokens, Kept)
              /\ cleaned[1] = Join(<<SPACE>>, out)
              /\ \A k \in 1..Len(cleaned[1]) :
                    IsSpace(cleaned[1][k]) =>
                        /\ cleaned[1][k] = SPACE
                        /\ 1 < k /\ k < Len(cleaned[1])
                        /\ ~IsSpace(cleaned[1][k + 1])

\* C11 witness: with the custom stop word 'nn', the input 'A nn' loses both
\* tokens and 'aaan' keeps its single token.
C11_Witness ==
    /\ nn \in stopwords
    /\ Len(cleaned) >= 1
    /\ \/ text = <<65, 32, 110, 110>> /\ cleaned[1] = <<>>
       \/ text = <<97, 97, 97, 110>> /\ cleaned[1] = text

\* C12: strQ2B maps U+3000 to the space, U+FF01..U+FF5E to the code point
\* 0xFEE0 lower and every other code point to itself; the output is as long
\* as the input, and a second application changes nothing.
C12_WidthFolding ==
    /\ Len(rstring) >= 1 =>
          /\ Len(rstring[1]) = Len(text)
          /\ \A k \in 1..Len(text) :
                rstring[1][k] =
                    IF text[k] = 12288 THEN 32
                    ELSE IF text[k] \in 65281..65374 THEN text[k] - 65248
                    ELSE text[k]
    /\ Len(rstring) = 2 => rstring[2] = rstring[1]

\* C12 witness: U+3000, U+FF01, U+FF5E and U+FF5F folded to ' ', '!', '~' and
\* U+FF5F, twice.
C12_Witness ==
    /\ text = <<12288, 65281, 65374, 65375>>
    /\ Len(rstring) = 2
    /\ rstring[2] = <<32, 33, 126, 65375>>

\* The columns whose header contains the role substring of field f.
HeadersWith(f) == {c \in DOMAIN keyword_df : f \in keyword_df[c].hdr}

\* The first column of a non-empty set of columns.
FirstColumn(H) == CHOOSE c \in H : \A d \in H : c <= d

\* C13: every role with at least one header containing its substring takes
\* its values from the first such header in column order, whatever other
\* substrings that header contains.
C13_FirstHeader ==
    \A f \in Fields :
        HeadersWith(f) # {} =>
            word_lists[f] = ColumnList(keyword_df, FirstColumn(HeadersWith(f)))

\* The loop over the headers gave field f a column.
Mapped(f) == \E c \in DOMAIN keyword_df : HeaderRole(keyword_df[c].hdr) = RoleOf(f)

\* C14: a field other than Keyword that no header maps to has an empty value
\* list and an empty index and records no match; when no header maps to
\* Keyword, the Keyword values are those of the first column.
C14_UnmappedRoles ==
    /\ \A f \in Fields \ {"keyword"} :
          ~Mapped(f) =>
              /\ word_lists[f] = <<>>
              /\ DOMAIN indexes[f] = {}
              /\ locals.matches[f] = <<>>
    /\ ~Mapped("keyword") =>
          /\ Len(word_lists["keyword"]) = Len(keyword_df[1].cells)
          /\ \A k \in 1..Len(keyword_df[1].cells) :
                word_lists["keyword"][k] = AsStr(keyword_df[1].cells[k])

\* C14 witness: the only mapped role is Brand; the phrase token 'aa' is found
\* by the Keyword pass through the first column, and Type records nothing.
C14_Witness ==
    /\ pc = "extracted"
    /\ ~Mapped("keyword")
    /\ ~Mapped("type")
    /\ Mapped("brand")
    /\ Len(locals.matches["keyword"]) = 1
    /\ locals.matches["type"] = <<>>

\* The entries (w, i) stored in the index of field f.
Stored(f) == UNION { Range(b) : b \in Range(indexes[f]) }

\* C15: the value an index stores for a raw reference value v is
\* clean_phrase(v).
C15_SameNormalization ==
    \A f \in Fields : \A e \in Stored(f) :
        e[1] = clean_phrase(stopwords, word_lists[f][e[2] + 1])

\* C16: in every index each entry is stored under its first token, each
\* stored value is non-empty, and each bucket is in descending order of
\* (number of tokens, length) with entries of equal key in row order.
C16_IndexOrdering ==
    \A f \in Fields : \A first \in DOMAIN indexes[f] :
        LET b == indexes[f][first]
        IN  /\ b # <<>>
            /\ \A k \in 1..Len(b) :
                  /\ b[k][1] # <<>>
                  /\ Split(b[k][1]) # <<>>
                  /\ Split(b[k][1])[1] = first
            /\ \A j \in 1..Len(b), k \in 1..Len(b) :
                  j < k =>
                      /\ ~KeyLess(SortKey(b[j]), SortKey(b[k]))
                      /\ SortKey(b[j]) = SortKey(b[k]) => b[j][2] < b[k][2]

\* C16 witness: a bucket under the key 'aa' where 'aa nn' of row 1 was moved
\* ahead of 'aa' of row 0.
C16_Witness ==
    \E f \in Fields :
        /\ aa \in DOMAIN indexes[f]
        /\ indexes[f][aa] = << <<aa_nn, 1>>, <<aa, 0>> >>

\* The column field f takes its values from.
ColumnOf(f) ==
    IF Mapped(f)
    THEN CHOOSE c \in DOMAIN keyword_df :
            /\ HeaderRole(keyword_df[c].hdr) = RoleOf(f)
            /\ \A d \in DOMAIN keyword_df :
                  HeaderRole(keyword_df[d].hdr) = RoleOf(f) => d <= c
    ELSE 1

\* C17: an empty or absent cell of a mapped column adds no entry to the
\* field's index, and no phrase token is matched because of such a cell.
C17_EmptyCells ==
    \A f \in Fields :
        Mapped(f) =>
            /\ \A e \in Stored(f) :
                  LET cell == keyword_df[ColumnOf(f)].cells[e[2] + 1]
                  IN  cell # NaN /\ Strip(cell) # <<>>
            /\ \A k \in 1..Len(locals.matches[f]) :
                  \E e \in Stored(f) :
                      LET cell == keyword_df[ColumnOf(f)].cells[e[2] + 1]
                      IN  /\ e[1] = locals.matches[f][k][1]
                          /\ cell # NaN /\ Strip(cell) # <<>>

\* Every one of the rows holds what extract_all returns for its phrase alone,
\* and rows of equal phrases hold equal results.
RowsAlone(stop, ix, rows) ==
    /\ \A k \in 1..Len(rows) :
          rows[k].extracted = extract_all(stop, ix, rows[k].phrase)
    /\ \A j \in 1..Len(rows), k \in 1..Len(rows) :
          rows[j].phrase = rows[k].phrase => rows[j].extracted = rows[k].extracted

C19_CompletedImpliesResult ==
    /\ (request.kind \in {"result", "download"} /\ request.status = "completed") =>
          {"output_file", "result_data"} \subseteq DOMAIN processing_status
    /\ \A k \in 1..Len(responses) :
          LET r == responses[k]
          IN  /\ r.handler = "download" => r.code # 404
              /\ (r.handler = "result" /\ r.code = 200) => r.statistics /\ r.preview

\* The moves of the status the lifecycle allows.
LifecycleMoves ==
    {<<"uploaded", "processing">>, <<"processing", "completed">>,
     <<"processing", "error">>}

\* The /progress responses among a sequence of responses, in order.
ProgressServed(rs) == SelectSeq(rs, LAMBDA r : r.handler = "progress")

C21_TaskTerminates ==
    Uploaded ~> (Uploaded /\ processing_status.status \in {"completed", "error"})

\* C21 witness: the worker has ended with the status 'error' after
\* process_file handled rows and returned a failure.
C21_Witness ==
    /\ worker = "done"
    /\ Uploaded
    /\ processing_status.status = "error"
    /\ ~ret.success
    /\ Len(progress_calls) >= 1

\* Recorded match r1 was made before r2: by an earlier field, or earlier in
\* the list of the same field.
MadeBefore(r1, r2) == r1[1] < r2[1] \/ (r1[1] = r2[1] /\ r1[2] < r2[2])

\* C22: every recorded match (keyword, start, end) of a field is an entry of
\* that field's index equal to the space-joined phrase tokens start..end,
\* the span lies within the token sequence, start was claimed by no match
\* made before it, and the matches of one field have strictly increasing
\* start positions.
C22_MatchSoundness ==
    pc = "extracted" =>
        \A r \in Recorded :
            LET m == MatchAt(r)
            IN  /\ m[1] \in AllEntries(indexes[FieldOrder[r[1]]])
                /\ 0 <= m[2] /\ m[2] <= m[3] /\ m[3] < Len(locals.words)
                /\ m[1] = Join(<<SPACE>>, SubSeq(locals.words, m[2] + 1, m[3] + 1))
                /\ \A q \in Recorded : MadeBefore(q, r) => m[2] \notin Span(MatchAt(q))
                /\ \A q \in Recorded :
                      (q[1] = r[1] /\ q[2] < r[2]) => MatchAt(q)[2] < m[2]

\* C22 witness: the Keyword pass recorded 'nn' at position 1, and the Brand
\* pass then recorded 'aa nn' at the unclaimed position 0 and 'nn' at 2.
C22_Witness ==
    /\ pc = "extracted"
    /\ locals.words = <<aa, nn, nn>>
    /\ locals.matches["keyword"] = << <<nn, 1, 1>>, <<nn, 2, 2>> >>
    /\ locals.matches["brand"] = << <<aa_nn, 0, 1>> >>

=============================================================================
